---- MODULE Spec2Model ----
(***************************************************************************)
(* Model of .github/scripts/weekly-pr-report.py: the weekly pull-request   *)
(* report.  get_report_range resolves the window, _paginate_search         *)
(* collects the search results page by page through graphql, aggregate     *)
(* counts them, ranking/send_slack render and post the report, and main    *)
(* sequences the stages.                                                   *)
(*                                                                         *)
(* A datetime is a record [ord, hour, minute, second, microsecond, tz]:    *)
(* ord is the proleptic Gregorian ordinal of its date (date.toordinal()),  *)
(* tz its fixed UTC offset in hours.  A str is the sequence of its code    *)
(* points, so that str comparison is the lexicographic one of Python.      *)
(* A dict is the sequence of its <<key, value>> items in insertion order.  *)
(***************************************************************************)
EXTENDS Integers, Sequences, FiniteSets, TLC

VARIABLES
    now_kst,        \* the reading of datetime.now(KST) in get_report_range
    since,          \* main's since: last_friday
    until,          \* main's until: this_friday
    created_prs,    \* the nodes search_prs_created returned
    updated_prs,    \* the nodes search_prs_with_reviews returned
    stats,          \* what aggregate returned
    blocks,         \* the texts send_slack renders from stats
    pc,             \* position of the run
    environ,        \* os.environ: the names of the values that are set
    collecting,     \* the search _paginate_search is running for
    cursor,         \* _paginate_search's cursor: 0 is None, else the endCursor
    results,        \* len(results) in _paginate_search
    log,            \* per search: requests issued, pages received, the last page's
                    \* hasNextPage, empty pages, warnings written, the list returned
    aggregated,     \* aggregate has been called
    slack_posts,    \* requests issued to chat.postMessage
    slack_ack,      \* what the chat API answered
    exit_code,      \* the exit code of the process, -1 while it runs
    error_at,       \* query requests issued when an error payload arrived, else -1
    stages          \* the stages main has entered, in order

datavars == <<now_kst, since, until, created_prs, updated_prs, stats, blocks>>

runvars ==
    <<environ, collecting, cursor, results, log, aggregated, slack_posts, slack_ack,
      exit_code, error_at, stages>>

vars == <<datavars, pc, runvars>>

----------------------------------------------------------------------------
(* datetime                                                                *)

KST == 9

REPORT_HOUR == 16

FRIDAY == 4

\* The value of since/until before get_report_range has returned.
NoDatetime ==
    [ord |-> 0, hour |-> 0, minute |-> 0, second |-> 0, microsecond |-> 0, tz |-> KST]

\* datetime.weekday(): Monday is 0.
Weekday(dt) == (dt.ord + 6) % 7

\* dt + timedelta(days = d)
AddDays(dt, d) == [dt EXCEPT !.ord = @ + d]

\* dt + timedelta(seconds = k), the carry running into the date
AddSeconds(dt, k) ==
    LET t == dt.hour * 3600 + dt.minute * 60 + dt.second + k
        r == t % 86400
    IN  [dt EXCEPT !.ord = @ + ((t - r) \div 86400),
                   !.hour = r \div 3600,
                   !.minute = (r % 3600) \div 60,
                   !.second = r % 60]

\* dt.astimezone(tz): the same instant, read at another fixed offset
AsTimezone(dt, tz) == [AddSeconds(dt, (tz - dt.tz) * 3600) EXCEPT !.tz = tz]

\* Comparison of aware datetimes, by instant: <<date, second of the day, microsecond>>
\* of the UTC reading.
DtKey(dt) ==
    LET u == AsTimezone(dt, 0)
    IN  <<u.ord, u.hour * 3600 + u.minute * 60 + u.second, u.microsecond>>

DtLess(a, b) ==
    LET x == DtKey(a)
        y == DtKey(b)
    IN  \/ x[1] < y[1]
        \/ x[1] = y[1] /\ x[2] < y[2]
        \/ x[1] = y[1] /\ x[2] = y[2] /\ x[3] < y[3]

DtLeq(a, b) == ~DtLess(b, a)

\* get_report_range setting the hour only: minute, second and microsecond stay.
GetReportRangeNoReplace(now) ==
    LET days_until_friday == (FRIDAY - Weekday(now)) % 7
        this_friday == AddDays([now EXCEPT !.hour = REPORT_HOUR], days_until_friday)
    IN  <<AddDays(this_friday, -7), this_friday>>

\* get_report_range counting the days to the Friday after today.
GetReportRangeNextWeek(now) ==
    LET days_until_friday == ((FRIDAY - Weekday(now) - 1) % 7) + 1
        this_friday ==
            AddDays([now EXCEPT !.hour = REPORT_HOUR, !.minute = 0,
                                !.second = 0, !.microsecond = 0],
                    days_until_friday)
    IN  <<AddDays(this_friday, -7), this_friday>>

\* get_report_range(): <<last_friday, this_friday>> for a reading now of the clock
get_report_range(now) ==
    LET days_until_friday == (FRIDAY - Weekday(now)) % 7
        this_friday ==
            AddDays([now EXCEPT !.hour = REPORT_HOUR, !.minute = 0,
                                !.second = 0, !.microsecond = 0],
                    days_until_friday)
        last_friday == AddDays(this_friday, -7)
    IN  <<last_friday, this_friday>>

----------------------------------------------------------------------------
(* to_github_date: strftime("%Y-%m-%dT%H:%M:%SZ") of the UTC reading       *)

IsLeap(y) == y % 4 = 0 /\ (y % 100 # 0 \/ y % 400 = 0)

DaysInMonth(y, m) ==
    IF m = 2 THEN (IF IsLeap(y) THEN 29 ELSE 28)
    ELSE IF m \in {4, 6, 9, 11} THEN 30 ELSE 31

DaysBeforeYear(y) == (y - 1) * 365 + (y - 1) \div 4 - (y - 1) \div 100 + (y - 1) \div 400

RECURSIVE DaysBeforeMonth(_, _)
DaysBeforeMonth(y, m) ==
    IF m = 1 THEN 0 ELSE DaysBeforeMonth(y, m - 1) + DaysInMonth(y, m - 1)

\* date.fromordinal(n): <<year, month, day>>, by 400-, 100-, 4- and 1-year cycles
Ord2Ymd(n) ==
    LET n0 == n - 1
        n400 == n0 \div 146097
        r400 == n0 % 146097
        n100 == r400 \div 36524
        r100 == r400 % 36524
        n4 == r100 \div 1461
        r4 == r100 % 1461
        n1 == r4 \div 365
        r1 == r4 % 365
        year == n400 * 400 + 1 + n100 * 100 + n4 * 4 + n1
    IN  IF n1 = 4 \/ n100 = 4
        THEN <<year - 1, 12, 31>>
        ELSE LET month == CHOOSE m \in 1 .. 12 :
                            /\ DaysBeforeMonth(year, m) <= r1
                            /\ r1 < DaysBeforeMonth(year, m) + DaysInMonth(year, m)
             IN  <<year, month, r1 - DaysBeforeMonth(year, month) + 1>>

\* Code points of the characters the format writes.
Digit(d) == 48 + d

\* %Y (four digits) and %m, %d, %H, %M, %S (two digits, zero padded)
Pad4(n) ==
    <<Digit(n \div 1000), Digit((n \div 100) % 10), Digit((n \div 10) % 10), Digit(n % 10)>>

Pad2(n) == <<Digit(n \div 10), Digit(n % 10)>>

\* "-" is 45, "T" 84, ":" 58, "Z" 90
Strftime(u) ==
    LET ymd == Ord2Ymd(u.ord)
    IN  Pad4(ymd[1]) \o <<45>> \o Pad2(ymd[2]) \o <<45>> \o Pad2(ymd[3]) \o <<84>>
        \o Pad2(u.hour) \o <<58>> \o Pad2(u.minute) \o <<58>> \o Pad2(u.second) \o <<90>>

\* to_github_date(dt)
to_github_date(dt) == Strftime(AsTimezone(dt, 0))

\* str <= str of Python: lexicographic by code point, a proper prefix first
StrLeq(a, b) ==
    LET common == IF Len(a) < Len(b) THEN Len(a) ELSE Len(b)
        diff == {i \in 1 .. common : a[i] # b[i]}
    IN  IF diff = {}
        THEN Len(a) <= Len(b)
        ELSE LET i == CHOOSE j \in diff : \A k \in diff : j <= k
             IN  a[i] < b[i]

----------------------------------------------------------------------------
(* dict, as defaultdict(int) and dict(sorted(...)) use it                  *)

HasKey(d, k) == \E i \in 1 .. Len(d) : d[i][1] = k

\* d[k] of a defaultdict(int) read without inserting
Get(d, k) == IF HasKey(d, k) THEN d[CHOOSE i \in 1 .. Len(d) : d[i][1] = k][2] ELSE 0

\* d[k] = v in place of d[k] += v
IncrOverwrite(d, k, v) ==
    IF HasKey(d, k)
    THEN [i \in 1 .. Len(d) |-> IF d[i][1] = k THEN <<k, v>> ELSE d[i]]
    ELSE Append(d, <<k, v>>)

\* d[k] += v: a new key goes to the end, an old one keeps its place
Incr(d, k, v) ==
    IF HasKey(d, k)
    THEN [i \in 1 .. Len(d) |-> IF d[i][1] = k THEN <<k, d[i][2] + v>> ELSE d[i]]
    ELSE Append(d, <<k, v>>)

RECURSIVE SumValues(_)
\* sum(d.values())
SumValues(d) == IF d = <<>> THEN 0 ELSE d[1][2] + SumValues(Tail(d))

\* sorted(...) step: item goes behind every item whose key -count is not greater
InsertSorted(sorted, item) ==
    LET smaller == {i \in 1 .. Len(sorted) : sorted[i][2] < item[2]}
        at == IF smaller = {} THEN Len(sorted) + 1
              ELSE CHOOSE i \in smaller : \A j \in smaller : i <= j
    IN  SubSeq(sorted, 1, at - 1) \o <<item>> \o SubSeq(sorted, at, Len(sorted))

RECURSIVE SortedDesc(_, _)
SortedDesc(items, acc) ==
    IF items = <<>> THEN acc ELSE SortedDesc(Tail(items), InsertSorted(acc, Head(items)))

\* desc left out: the mapping in insertion order
DescUnsorted(d) == d

\* desc = lambda d: dict(sorted(d.items(), key=lambda x: -x[1])): a stable sort
desc(d) == SortedDesc(d, <<>>)

----------------------------------------------------------------------------
(* aggregate                                                               *)

\* JSON null, for an author the API does not return
None == "None"

GHOST == "ghost"

\* node["author"]["login"] if node.get("author") else "ghost"
Login(node) == IF node.author # None THEN node.author ELSE GHOST

RECURSIVE CountCreated(_, _, _)
\* the loop over created_prs: <<pr_by_repo, pr_by_person>>
CountCreated(prs, pr_by_repo, pr_by_person) ==
    IF prs = <<>>
    THEN <<pr_by_repo, pr_by_person>>
    ELSE LET pr == Head(prs)
         IN  CountCreated(Tail(prs),
                          Incr(pr_by_repo, pr.repository, 1),
                          Incr(pr_by_person, Login(pr), 1))

\* the filter with the end of the window left out
InWindowHalfOpen(created_at, since_str, until_str) ==
    StrLeq(since_str, created_at) /\ ~StrLeq(until_str, created_at)

\* since_str <= created_at <= until_str
InWindow(created_at, since_str, until_str) ==
    StrLeq(since_str, created_at) /\ StrLeq(created_at, until_str)

RECURSIVE CountReviews(_, _, _, _, _, _)
\* the loop over one pull request's reviews
CountReviews(reviews, repo, since_str, until_str, comments_by_repo, comments_by_person) ==
    IF reviews = <<>>
    THEN <<comments_by_repo, comments_by_person>>
    ELSE LET review == Head(reviews)
         IN  IF ~InWindow(review.createdAt, since_str, until_str)
             THEN CountReviews(Tail(reviews), repo, since_str, until_str,
                               comments_by_repo, comments_by_person)
             ELSE CountReviews(Tail(reviews), repo, since_str, until_str,
                               Incr(comments_by_repo, repo, review.totalCount),
                               Incr(comments_by_person, Login(review), review.totalCount))

RECURSIVE CountUpdated(_, _, _, _, _)
\* the loop over updated_prs: <<comments_by_repo, comments_by_person>>
CountUpdated(prs, since_str, until_str, comments_by_repo, comments_by_person) ==
    IF prs = <<>>
    THEN <<comments_by_repo, comments_by_person>>
    ELSE LET pr == Head(prs)
             c == CountReviews(pr.reviews, pr.repository, since_str, until_str,
                               comments_by_repo, comments_by_person)
         IN  CountUpdated(Tail(prs), since_str, until_str, c[1], c[2])

\* aggregate(created_prs, updated_prs, since, until)
aggregate(created, updated, s, u) ==
    LET p == CountCreated(created, <<>>, <<>>)
        c == CountUpdated(updated, to_github_date(s), to_github_date(u), <<>>, <<>>)
    IN  [total_prs |-> SumValues(p[1]),
         total_comments |-> SumValues(c[1]),
         pr_by_repo |-> desc(p[1]),
         pr_by_person |-> desc(p[2]),
         comments_by_repo |-> desc(c[1]),
         comments_by_person |-> desc(c[2])]

\* stats before aggregate has returned
NoStats ==
    [total_prs |-> 0, total_comments |-> 0, pr_by_repo |-> <<>>, pr_by_person |-> <<>>,
     comments_by_repo |-> <<>>, comments_by_person |-> <<>>]

----------------------------------------------------------------------------
(* ranking and the texts of send_slack                                     *)

RANKING_LIMIT == 10

\* the fixed text ranking returns for an empty mapping (Korean for "no activity")
NO_ACTIVITY == "no activity"

FirstN(seq, n) == SubSeq(seq, 1, IF Len(seq) < n THEN Len(seq) ELSE n)

\* ranking without the [:limit]
RankingUnlimited(data, unit) ==
    IF data = <<>>
    THEN [text |-> NO_ACTIVITY, lines |-> <<>>]
    ELSE [text |-> "",
          lines |-> [i \in 1 .. Len(data) |->
                        [i |-> i, name |-> data[i][1], count |-> data[i][2], unit |-> unit]]]

\* ranking(data, unit, limit=10): the fixed text, or the numbered lines
ranking(data, unit) ==
    LET items == FirstN(data, RANKING_LIMIT)
    IN  IF items = <<>>
        THEN [text |-> NO_ACTIVITY, lines |-> <<>>]
        ELSE [text |-> "",
              lines |-> [i \in 1 .. Len(items) |->
                            [i |-> i, name |-> items[i][1], count |-> items[i][2],
                             unit |-> unit]]]

\* the default unit suffix of ranking (one Hangul syllable, U+AC74), transliterated
UNIT == "geon"

\* the fields and sections of blocks that depend on stats
Blocks(st) ==
    [total_prs |-> st.total_prs,
     total_comments |-> st.total_comments,
     pr_by_repo |-> ranking(st.pr_by_repo, UNIT),
     pr_by_person |-> ranking(st.pr_by_person, UNIT),
     comments_by_repo |-> ranking(st.comments_by_repo, UNIT),
     comments_by_person |-> ranking(st.comments_by_person, UNIT)]

NoBlocks == Blocks(NoStats)

----------------------------------------------------------------------------
(* The process and its environment                                         *)

REQUIRED == {"ORG_NAME", "GH_TOKEN", "SLACK_BOT_TOKEN", "SLACK_CHANNEL_ID"}

SEARCHES == {"created", "updated"}

NoCall ==
    [requests |-> 0, pages |-> 0, hasNextPage |-> FALSE, empty |-> 0, warnings |-> 0,
     returned |-> FALSE, len |-> 0]

\* The process as it starts, with the given values set in its environment.
Started(env) ==
    /\ environ = env
    /\ collecting = "none"
    /\ cursor = 0
    /\ results = 0
    /\ log = [c \in SEARCHES |-> NoCall]
    /\ aggregated = FALSE
    /\ slack_posts = 0
    /\ slack_ack = "none"
    /\ exit_code = -1
    /\ error_at = -1
    /\ stages = <<>>

----------------------------------------------------------------------------
(* Readings of the clock                                                   *)

\* Number of consecutive dates the clock is read on, from Monday 2023-12-25.
MaxDays == 14

ClockHours == {0, 8, 9, 15, 16, 17, 23}

Nows ==
    [ord : 738879 .. (738879 + MaxDays - 1),
     hour : ClockHours,
     minute : {0, 59},
     second : {0, 59},
     microsecond : {0, 999999},
     tz : {KST}]

----------------------------------------------------------------------------
(* The window resolver alone                                               *)

InitRange ==
    /\ now_kst \in Nows
    /\ since = NoDatetime
    /\ until = NoDatetime
    /\ pc = "get_report_range"
    /\ created_prs = <<>>
    /\ updated_prs = <<>>
    /\ stats = NoStats
    /\ blocks = NoBlocks
    /\ Started(REQUIRED)

GetReportRange ==
    /\ pc = "get_report_range"
    /\ since' = get_report_range(now_kst)[1]
    /\ until' = get_report_range(now_kst)[2]
    /\ pc' = "resolved"
    /\ UNCHANGED <<now_kst, created_prs, updated_prs, stats, blocks, runvars>>

NextRange == GetReportRange

SpecRange == InitRange /\ [][NextRange]_vars

----------------------------------------------------------------------------
(* The records the search API returns                                      *)

\* Longest list of created pull requests enumerated in full.
MaxCreated == 2

\* Longest list of updated pull requests enumerated in full.
MaxUpdated == 2

\* Most reviews of the one pull request whose review times are enumerated.
MaxReviews == 2

SeqsUpTo(S, n) == UNION {[1 .. k -> S] : k \in 0 .. n}

\* createdAt as the API writes a DateTime: UTC, to the second, "YYYY-MM-DDTHH:MM:SSZ"
GithubDateTime(at) == Strftime(AsTimezone(at, 0))

\* A review node.  The field at is the instant the review was created: the code
\* never reads it, the properties compare it with the window.
Review(author, at, count) ==
    [author |-> author, createdAt |-> GithubDateTime(at), totalCount |-> count, at |-> at]

\* The instant k seconds after the start of the window that begins at s.
After(s, k) == AsTimezone(AddSeconds(s, k), 0)

CreatedNodes == [repository : {"x", "y"}, author : {"alice", None}]

\* Reviews at the very start and the very end of the window, and one past its end.
CoarseReviews(s) ==
    {Review(a, After(s, 0), 1) : a \in {"bob", None}}
    \cup {Review("bob", After(s, 604800), 2), Review("bob", After(s, 604801), 2)}

\* Updated pull requests with at most one review each.
UpdatedNodes(s) ==
    [repository : {"x", "y"}, reviews : {<<>>} \cup {<<r>> : r \in CoarseReviews(s)}]

\* Seconds from the start of the window: a day and a second before it, on it, a
\* second into it, a second before its end, on its end and a second after.
FineOffsets == {-86400, -1, 0, 1, 604799, 604800, 604801}

FineReviews(s) == {Review("bob", After(s, k), c) : k \in FineOffsets, c \in {1, 3}}

\* Names of the repositories and logins of a list longer than the ranking shows.
Names == <<"n01", "n02", "n03", "n04", "n05", "n06", "n07", "n08", "n09", "n10",
           "n11", "n12", "n13", "n14">>

\* n distinct names in order, then the first m even ones once more.
WideName(i, n) == Names[IF i <= n THEN i ELSE 2 * (i - n)]

WideCreated(n, m) ==
    [i \in 1 .. (n + m) |-> [repository |-> WideName(i, n), author |-> WideName(i, n)]]

WideUpdated(s, n, m) ==
    [i \in 1 .. (n + m) |->
        [repository |-> WideName(i, n),
         reviews |-> <<Review(WideName(i, n), After(s, 0), 1 + (i % 2))>>]]

WideSizes == {9, 10, 11, 12} \X {0, 3}

\* The clock at 16:00:00 sharp on each date.
AnchorNows == {n \in Nows : n.hour = 16 /\ n.minute = 0 /\ n.second = 0 /\ n.microsecond = 0}

\* One reading on each Friday and each Saturday: every window the dates give.
WindowNows == {n \in AnchorNows : Weekday(n) \in {FRIDAY, FRIDAY + 1}}

----------------------------------------------------------------------------
(* aggregate and the rendering of its result, on given search results      *)

InitAgg ==
    /\ now_kst \in AnchorNows
    /\ since = get_report_range(now_kst)[1]
    /\ until = get_report_range(now_kst)[2]
    /\ \/ /\ now_kst.ord = 738879
          /\ created_prs \in SeqsUpTo(CreatedNodes, MaxCreated)
          /\ updated_prs \in SeqsUpTo(UpdatedNodes(since), MaxUpdated)
       \/ /\ now_kst \in WindowNows
          /\ created_prs = <<>>
          /\ \E reviews \in SeqsUpTo(FineReviews(since), MaxReviews) :
                updated_prs = <<[repository |-> "x", reviews |-> reviews]>>
       \/ /\ now_kst.ord = 738879
          /\ \E w \in WideSizes :
                /\ created_prs = WideCreated(w[1], w[2])
                /\ updated_prs \in {<<>>, WideUpdated(since, w[1], w[2])}
    /\ stats = NoStats
    /\ blocks = NoBlocks
    /\ pc = "aggregate"
    /\ Started(REQUIRED)

\* stats = aggregate(created_prs, updated_prs, since, until)
Aggregate ==
    /\ pc = "aggregate"
    /\ stats' = aggregate(created_prs, updated_prs, since, until)
    /\ pc' = "send_slack"
    /\ UNCHANGED <<now_kst, since, until, created_prs, updated_prs, blocks, runvars>>

\* send_slack up to the payload: the blocks rendered from stats
RenderBlocks ==
    /\ pc = "send_slack"
    /\ blocks' = Blocks(stats)
    /\ pc' = "post"
    /\ UNCHANGED <<now_kst, since, until, created_prs, updated_prs, stats, runvars>>

NextAgg == Aggregate \/ RenderBlocks

SpecAgg == InitAgg /\ [][NextAgg]_vars

----------------------------------------------------------------------------
(* The run: main, graphql, _paginate_search, send_slack.  A node of a      *)
(* search result counts here only by being null or not, so results and the *)
(* lists returned are kept as their lengths.                               *)

CAP == 1000

PAGE_SIZE == 100

\* Most pages without any non-null node that the API sends with hasNextPage = true
\* in one search.
MaxEmptyPages == 1

\* The responses of the search API: the non-null and the null nodes of the page
\* (first: 100 of them at most), pageInfo.hasNextPage, and whether the document
\* carries an "errors" payload.
Pages(sizes) ==
    {p \in [nodes : sizes, nulls : {0, 1}, hasNextPage : BOOLEAN, errors : BOOLEAN] :
        p.nodes + p.nulls <= PAGE_SIZE}

\* Page sizes of a whole run, and of one search followed request by request.
RunSizes == {0, PAGE_SIZE}

SearchSizes == {0, 1, PAGE_SIZE}

TotalRequests == log["created"].requests + log["updated"].requests

\* sys.exit(code), and an uncaught exception, which ends the process with code 1
Exit(code) ==
    /\ pc' = "exit"
    /\ exit_code' = code

\* main up to the first call of _paginate_search
Main ==
    /\ pc = "main"
    /\ IF "ORG_NAME" \notin environ
       THEN /\ Exit(1)
            /\ UNCHANGED <<since, until, stages, collecting>>
       ELSE /\ since' = get_report_range(now_kst)[1]
            /\ until' = get_report_range(now_kst)[2]
            /\ stages' = <<"resolve", "created">>
            /\ collecting' = "created"
            /\ pc' = "graphql"
            /\ UNCHANGED exit_code
    /\ UNCHANGED <<now_kst, created_prs, updated_prs, stats, blocks, environ, cursor,
                   results, log, aggregated, slack_posts, slack_ack, error_at>>

\* graphql up to urlopen: os.environ["GH_TOKEN"] raises KeyError when it is not set
GraphqlRequest ==
    /\ pc = "graphql"
    /\ IF "GH_TOKEN" \notin environ
       THEN /\ Exit(1)
            /\ UNCHANGED log
       ELSE /\ log' = [log EXCEPT ![collecting].requests = @ + 1]
            /\ pc' = "urlopen"
            /\ UNCHANGED exit_code
    /\ UNCHANGED <<datavars, environ, collecting, cursor, results, aggregated,
                   slack_posts, slack_ack, error_at, stages>>

\* urlopen raises (an HTTP error status, no connection): nothing catches it
GraphqlFails ==
    /\ pc = "urlopen"
    /\ Exit(1)
    /\ UNCHANGED <<datavars, environ, collecting, cursor, results, log, aggregated,
                   slack_posts, slack_ack, error_at, stages>>

\* graphql not looking for "errors"
HasErrorsIgnored(page) == FALSE

\* "errors" in data
HasErrors(page) == page.errors

\* the cap tested with > in place of >=
CapExceeded(n) == n > CAP

\* len(results) >= 1000
CapReached(n) == n >= CAP

\* the loop leaving without the warning
WarnsNever(page, n) == FALSE

\* the warning is printed on the way out of the loop past a page that has a next one
Warns(page, n) == page.hasNextPage /\ CapReached(n)

\* The response to a query request: the rest of graphql, and the body of the loop
\* of _paginate_search up to its next request or its return.
GraphqlResponse(page) ==
    /\ pc = "urlopen"
    /\ (page.hasNextPage /\ page.nodes = 0 /\ ~page.errors)
          => log[collecting].empty < MaxEmptyPages
    /\ error_at' = IF page.errors /\ error_at = -1 THEN TotalRequests ELSE error_at
    /\ IF HasErrors(page)
       THEN /\ Exit(1)
            /\ UNCHANGED <<results, cursor, log>>
       ELSE LET n == results + page.nodes
            IN  /\ results' = n
                /\ log' = [log EXCEPT ![collecting] =
                            [@ EXCEPT !.pages = @ + 1,
                                      !.hasNextPage = page.hasNextPage,
                                      !.empty = @ + (IF page.hasNextPage /\ page.nodes = 0
                                                     THEN 1 ELSE 0),
                                      !.warnings = @ + (IF Warns(page, n) THEN 1 ELSE 0)]]
                /\ cursor' = IF page.hasNextPage THEN log[collecting].pages + 1 ELSE cursor
                /\ pc' = IF ~page.hasNextPage \/ CapReached(n) THEN "returned" ELSE "graphql"
                /\ UNCHANGED exit_code
    /\ UNCHANGED <<datavars, environ, collecting, aggregated, slack_posts, slack_ack,
                   stages>>

\* main from the return of search_prs_created to the call of search_prs_with_reviews
MainCreatedReturned ==
    /\ pc = "returned"
    /\ collecting = "created"
    /\ log' = [log EXCEPT !["created"] = [@ EXCEPT !.returned = TRUE, !.len = results]]
    /\ stages' = Append(stages, "updated")
    /\ collecting' = "updated"
    /\ cursor' = 0
    /\ results' = 0
    /\ pc' = "graphql"
    /\ UNCHANGED <<datavars, environ, aggregated, slack_posts, slack_ack, exit_code,
                   error_at>>

\* main from the return of search_prs_with_reviews through aggregate
MainUpdatedReturned ==
    /\ pc = "returned"
    /\ collecting = "updated"
    /\ log' = [log EXCEPT !["updated"] = [@ EXCEPT !.returned = TRUE, !.len = results]]
    /\ stages' = Append(stages, "aggregate")
    /\ aggregated' = TRUE
    /\ collecting' = "none"
    /\ pc' = "publish"
    /\ UNCHANGED <<datavars, environ, cursor, results, slack_posts, slack_ack, exit_code,
                   error_at>>

\* send_slack up to urlopen: either os.environ[...] raises KeyError when not set
SendSlack ==
    /\ pc = "publish"
    /\ stages' = Append(stages, "publish")
    /\ IF "SLACK_BOT_TOKEN" \notin environ \/ "SLACK_CHANNEL_ID" \notin environ
       THEN /\ Exit(1)
            /\ UNCHANGED slack_posts
       ELSE /\ slack_posts' = slack_posts + 1
            /\ pc' = "urlopen_slack"
            /\ UNCHANGED exit_code
    /\ UNCHANGED <<datavars, environ, collecting, cursor, results, log, aggregated,
                   slack_ack, error_at>>

\* urlopen raises in send_slack
SlackFails ==
    /\ pc = "urlopen_slack"
    /\ Exit(1)
    /\ UNCHANGED <<datavars, environ, collecting, cursor, results, log, aggregated,
                   slack_posts, slack_ack, error_at, stages>>

\* send_slack not looking at the acknowledgment
SlackOkIgnored(ok) == TRUE

\* result.get("ok")
SlackOk(ok) == ok

\* The acknowledgment of the chat API: the rest of send_slack, and main's return.
SlackResponse(ok) ==
    /\ pc = "urlopen_slack"
    /\ slack_ack' = IF ok THEN "ok" ELSE "error"
    /\ IF SlackOk(ok) THEN Exit(0) ELSE Exit(1)
    /\ UNCHANGED <<datavars, environ, collecting, cursor, results, log, aggregated,
                   slack_posts, error_at, stages>>

Init ==
    /\ now_kst \in {n \in WindowNows : n.ord < 738879 + 7}
    /\ since = NoDatetime
    /\ until = NoDatetime
    /\ created_prs = <<>>
    /\ updated_prs = <<>>
    /\ stats = NoStats
    /\ blocks = NoBlocks
    /\ pc = "main"
    /\ \E env \in SUBSET REQUIRED : Started(env)

Next ==
    \/ Main
    \/ GraphqlRequest
    \/ GraphqlFails
    \/ \E page \in Pages(RunSizes) : GraphqlResponse(page)
    \/ MainCreatedReturned
    \/ MainUpdatedReturned
    \/ SendSlack
    \/ SlackFails
    \/ \E ok \in BOOLEAN : SlackResponse(ok)

Spec == Init /\ [][Next]_vars

----------------------------------------------------------------------------
(* One call of _paginate_search, from search_prs_created or, after that    *)
(* returned an only and empty page, from search_prs_with_reviews           *)

InitPaginate ==
    /\ now_kst \in {n \in WindowNows : n.ord < 738879 + 7 /\ Weekday(n) = FRIDAY}
    /\ since = get_report_range(now_kst)[1]
    /\ until = get_report_range(now_kst)[2]
    /\ created_prs = <<>>
    /\ updated_prs = <<>>
    /\ stats = NoStats
    /\ blocks = NoBlocks
    /\ pc = "graphql"
    /\ cursor = 0
    /\ results = 0
    /\ aggregated = FALSE
    /\ slack_posts = 0
    /\ slack_ack = "none"
    /\ exit_code = -1
    /\ error_at = -1
    /\ \/ /\ collecting = "created"
          /\ environ \in {REQUIRED, REQUIRED \ {"GH_TOKEN"}}
          /\ log = [c \in SEARCHES |-> NoCall]
          /\ stages = <<"resolve", "created">>
       \/ /\ collecting = "updated"
          /\ environ = REQUIRED
          /\ log = [c \in SEARCHES |->
                      IF c = "created"
                      THEN [NoCall EXCEPT !.requests = 1, !.pages = 1, !.returned = TRUE]
                      ELSE NoCall]
          /\ stages = <<"resolve", "created", "updated">>

NextPaginate ==
    \/ GraphqlRequest
    \/ GraphqlFails
    \/ \E page \in Pages(SearchSizes) : GraphqlResponse(page)

SpecPaginate == InitPaginate /\ [][NextPaginate]_vars

----------------------------------------------------------------------------
(* Properties of the window                                                *)

\* C1: for every reading of the clock, the window get_report_range returns is
\* exactly 7 days long (same time of day, dates 7 apart) and ends on a Friday at
\* 16:00:00.000000 in UTC+9.
C1_WindowIsOneWeekEndingFriday16 ==
    pc = "resolved" =>
        /\ until.ord - since.ord = 7
        /\ DtKey(until)[2] = DtKey(since)[2]
        /\ until.microsecond = since.microsecond
        /\ since.tz = until.tz
        /\ until.tz = KST
        /\ Weekday(until) = FRIDAY
        /\ until.hour = REPORT_HOUR
        /\ until.minute = 0
        /\ until.second = 0
        /\ until.microsecond = 0

\* A window resolved from a reading that is neither on a Friday nor on a full hour.
C1_Witness ==
    /\ pc = "resolved"
    /\ Weekday(now_kst) = 1
    /\ now_kst.hour = 23
    /\ now_kst.minute = 59
    /\ now_kst.microsecond = 999999

\* C2: on a Friday the window ends at 16:00 of the clock's own date, whether the
\* clock reads before or after 16:00 (days_until_friday = 0); on any other weekday
\* it ends at 16:00 of the first Friday after the clock's date, strictly after now.
C2_EndIsTodayOnFridayElseNextFriday ==
    pc = "resolved" =>
        /\ until.hour = REPORT_HOUR
        /\ until.minute = 0
        /\ until.second = 0
        /\ until.microsecond = 0
        /\ Weekday(until) = FRIDAY
        /\ IF Weekday(now_kst) = FRIDAY
           THEN until.ord = now_kst.ord
           ELSE /\ until.ord > now_kst.ord
                /\ until.ord - now_kst.ord <= 6
                /\ DtLess(now_kst, until)

\* A window resolved on a Friday after 16:00: its end is already past.
C2_Witness ==
    /\ pc = "resolved"
    /\ Weekday(now_kst) = FRIDAY
    /\ now_kst.hour = 17
    /\ DtLess(until, now_kst)

----------------------------------------------------------------------------
(* Properties of aggregate and ranking                                     *)

RECURSIVE SumSeq(_)
SumSeq(q) == IF q = <<>> THEN 0 ELSE Head(q) + SumSeq(Tail(q))

RECURSIVE FlatReviews(_)
\* Every review of the updated pull requests, in the order the loops meet them.
FlatReviews(prs) ==
    IF prs = <<>>
    THEN <<>>
    ELSE LET pr == Head(prs)
         IN  [i \in 1 .. Len(pr.reviews) |->
                [repo |-> pr.repository,
                 person |-> IF pr.reviews[i].author = None THEN "ghost"
                            ELSE pr.reviews[i].author,
                 at |-> pr.reviews[i].at,
                 count |-> pr.reviews[i].totalCount]]
             \o FlatReviews(Tail(prs))

\* Created at or after window.start and at or before window.end, as instants.
InsideWindow(r) == DtLeq(since, r.at) /\ DtLeq(r.at, until)

CountedReviews == SelectSeq(FlatReviews(updated_prs), InsideWindow)

FlatCreated ==
    [i \in 1 .. Len(created_prs) |->
        [repo |-> created_prs[i].repository,
         person |-> IF created_prs[i].author = None THEN "ghost" ELSE created_prs[i].author]]

Aggregated == pc \in {"send_slack", "post"}

\* C3: total_prs, the sum of pr_by_repo and the sum of pr_by_person all equal the
\* number of created records, a record without author counting once under "ghost";
\* total_comments equals the sum of comments_by_repo and of comments_by_person.
C3_TotalsAgreeWithBreakdowns ==
    Aggregated =>
        /\ stats.total_prs = Len(created_prs)
        /\ SumValues(stats.pr_by_repo) = Len(created_prs)
        /\ SumValues(stats.pr_by_person) = Len(created_prs)
        /\ Get(stats.pr_by_person, "ghost")
              = Cardinality({i \in 1 .. Len(created_prs) : created_prs[i].author = None})
        /\ stats.total_comments = SumValues(stats.comments_by_repo)
        /\ stats.total_comments = SumValues(stats.comments_by_person)

\* Two created records of one repository, one of them without author, and counted
\* reviews of two reviewers.
C3_Witness ==
    /\ Aggregated
    /\ Len(created_prs) = 2
    /\ created_prs[1].repository = created_prs[2].repository
    /\ created_prs[1].author = None
    /\ created_prs[2].author # None
    /\ Len(stats.comments_by_person) = 2
    /\ stats.total_comments > 2

\* What the reviews inside the window add up to, for one repository or reviewer.
ExpectedByRepo(k) ==
    SumSeq([i \in 1 .. Len(CountedReviews) |->
               IF CountedReviews[i].repo = k THEN CountedReviews[i].count ELSE 0])

ExpectedByPerson(k) ==
    SumSeq([i \in 1 .. Len(CountedReviews) |->
               IF CountedReviews[i].person = k THEN CountedReviews[i].count ELSE 0])

ReviewKeys(field) ==
    {FlatReviews(updated_prs)[i][field] : i \in 1 .. Len(FlatReviews(updated_prs))}

\* C4: a review created strictly before window.start or strictly after window.end
\* adds nothing to any comment counter, and every other review, those created
\* exactly at window.start or exactly at window.end included, adds its full comment
\* count to the counter of its pull request's repository and to its reviewer's.
C4_ReviewsCountedIffInsideClosedWindow ==
    Aggregated =>
        /\ \A k \in ReviewKeys("repo") : Get(stats.comments_by_repo, k) = ExpectedByRepo(k)
        /\ \A k \in ReviewKeys("person") :
              Get(stats.comments_by_person, k) = ExpectedByPerson(k)
        /\ \A i \in 1 .. Len(stats.comments_by_repo) :
              stats.comments_by_repo[i][1] \in ReviewKeys("repo")
        /\ \A i \in 1 .. Len(stats.comments_by_person) :
              stats.comments_by_person[i][1] \in ReviewKeys("person")
        /\ stats.total_comments
              = SumSeq([i \in 1 .. Len(CountedReviews) |-> CountedReviews[i].count])

\* One review exactly at window.end, counted in full, and one a second later, left out.
C4_Witness ==
    /\ Aggregated
    /\ Len(updated_prs) = 1
    /\ Len(updated_prs[1].reviews) = 2
    /\ DtKey(updated_prs[1].reviews[1].at) = DtKey(until)
    /\ DtLess(until, updated_prs[1].reviews[2].at)
    /\ updated_prs[1].reviews[1].totalCount = 3
    /\ stats.total_comments = 3

\* Place of the first item of q that has value k in the given field.
FirstSeen(q, field, k) ==
    CHOOSE i \in 1 .. Len(q) : q[i][field] = k /\ \A j \in 1 .. (i - 1) : q[j][field] # k

\* m is in descending order of count, and of two keys with equal counts the one
\* first met in q comes first.
RankedStably(m, q, field) ==
    \A i, j \in 1 .. Len(m) :
        i < j =>
            \/ m[i][2] > m[j][2]
            \/ /\ m[i][2] = m[j][2]
               /\ FirstSeen(q, field, m[i][1]) < FirstSeen(q, field, m[j][1])

\* text renders the first 10 items of m, numbered from 1, or the fixed text.
RendersTop(text, m) ==
    /\ (m = <<>>) <=> (text.text = NO_ACTIVITY)
    /\ Len(text.lines) = (IF Len(m) < 10 THEN Len(m) ELSE 10)
    /\ \A i \in 1 .. Len(text.lines) :
          /\ text.lines[i].i = i
          /\ text.lines[i].name = m[i][1]
          /\ text.lines[i].count = m[i][2]

\* C5: each of the four mappings is in descending order of count, keys of equal
\* count in the order in which they were first counted; ranking renders the first
\* 10 entries of that order numbered from 1, and the fixed text for an empty mapping.
C5_MappingsRankedStablyAndTopTenRendered ==
    /\ Aggregated =>
          /\ RankedStably(stats.pr_by_repo, FlatCreated, "repo")
          /\ RankedStably(stats.pr_by_person, FlatCreated, "person")
          /\ RankedStably(stats.comments_by_repo, CountedReviews, "repo")
          /\ RankedStably(stats.comments_by_person, CountedReviews, "person")
    /\ pc = "post" =>
          /\ RendersTop(blocks.pr_by_repo, stats.pr_by_repo)
          /\ RendersTop(blocks.pr_by_person, stats.pr_by_person)
          /\ RendersTop(blocks.comments_by_repo, stats.comments_by_repo)
          /\ RendersTop(blocks.comments_by_person, stats.comments_by_person)

\* Twelve repositories, three of them with two pull requests and so moved ahead of
\* the first one met, rendered as ten lines beside an empty mapping.
C5_Witness ==
    /\ pc = "post"
    /\ Len(stats.pr_by_repo) = 12
    /\ created_prs[1].repository = "n01"
    /\ stats.pr_by_repo[1] = <<"n02", 2>>
    /\ stats.pr_by_repo[4] = <<"n01", 1>>
    /\ Len(blocks.pr_by_repo.lines) = 10
    /\ stats.comments_by_repo = <<>>
    /\ blocks.comments_by_repo.text = NO_ACTIVITY

----------------------------------------------------------------------------
(* Properties of _paginate_search                                          *)

\* The search _paginate_search is running for, as the log has it.
Call == log[collecting]

\* C6: the loop goes on to another request only past a page that has a next one and
\* leaves fewer than 1000 records accumulated, and returns only past a page that has
\* no next one or brings the records to 1000 or more; the warning is written exactly
\* when it returns past a page that has a next one.  Ten pages of 100 records, each
\* with a next one, give 1000 records, 10 requests, one warning and a normal return.
C6_StopsAtLastPageOrCapAndWarnsOnTruncation ==
    /\ (pc \in {"graphql", "urlopen"} /\ Call.pages >= 1)
          => (Call.hasNextPage /\ results < CAP)
    /\ pc = "returned"
          => /\ ~Call.hasNextPage \/ results >= CAP
             /\ exit_code = -1
    /\ Call.warnings = (IF pc = "returned" /\ Call.hasNextPage THEN 1 ELSE 0)
    /\ (Call.pages = 10 /\ results = 10 * PAGE_SIZE /\ Call.hasNextPage)
          => /\ pc = "returned"
             /\ Call.requests = 10
             /\ Call.warnings = 1
             /\ results = 1000

\* The tenth full page with a next one: returned with 1000 records and the warning.
C6_Witness ==
    /\ pc = "returned"
    /\ Call.pages = 10
    /\ Call.requests = 10
    /\ Call.hasNextPage
    /\ results = 1000
    /\ Call.warnings = 1
    /\ exit_code = -1

\* C10: a request is only ever issued with fewer than 1000 records accumulated; so,
\* as long as every page that has a next one carried a non-null node, no more than
\* 1000 requests are issued and the list returned is shorter than 1000 plus a page.
C10_RequestsOnlyBelowCapSoAtMostCapRequests ==
    /\ pc = "urlopen" => results < CAP
    /\ Call.empty = 0
          => /\ Call.requests <= CAP
             /\ pc = "returned" => results < CAP + PAGE_SIZE

\* A thousand pages of one record each: the thousandth request is the last.
C10_Witness ==
    /\ pc = "returned"
    /\ Call.empty = 0
    /\ Call.requests = 1000
    /\ results = 1000

----------------------------------------------------------------------------
(* Properties of the run                                                   *)

\* C7: once a response of the query API has carried an error payload, the process
\* has exited with code 1, no further query request has been issued, the search it
\* came in has returned no list, aggregate has not run and nothing has been posted.
C7_ErrorPayloadIsFatal ==
    error_at # -1 =>
        /\ pc = "exit"
        /\ exit_code = 1
        /\ TotalRequests = error_at
        /\ collecting \in SEARCHES
        /\ ~log[collecting].returned
        /\ ~aggregated
        /\ slack_posts = 0

\* An error payload on a later page of the second search.
C7_Witness ==
    /\ error_at = 3
    /\ collecting = "updated"
    /\ log["updated"].pages = 1
    /\ results = PAGE_SIZE
    /\ pc = "exit"

\* C8: when a required value (organization name, query-API credential, chat
\* credential, channel identifier) is not set, the run ends with a non-zero exit
\* code and has issued no request to the query API or the chat API.
C8_AbsentConfigFailsBeforeAnyRequest ==
    environ # REQUIRED =>
        /\ TotalRequests = 0
        /\ slack_posts = 0
        /\ pc = "exit" => exit_code # 0

StageOrder == <<"resolve", "created", "updated", "aggregate", "publish">>

\* C9: the stages are entered in the fixed order; at most one chat post is issued,
\* and only after both searches have returned and aggregate has run; the process
\* exits with code 0 exactly when the post was acknowledged as successful, and with
\* code 1 in every other outcome.
C9_StagesInOrderAndExitZeroIffDelivered ==
    /\ Len(stages) <= Len(StageOrder)
    /\ stages = SubSeq(StageOrder, 1, Len(stages))
    /\ slack_posts <= 1
    /\ slack_posts = 1
          => /\ log["created"].returned
             /\ log["updated"].returned
             /\ aggregated
             /\ stages = StageOrder
    /\ pc = "exit"
          => /\ exit_code \in {0, 1}
             /\ exit_code = 0 <=> slack_ack = "ok"
    /\ pc # "exit"
          => /\ exit_code = -1
             /\ slack_ack = "none"
    /\ exit_code = 0 => slack_posts = 1

\* A report delivered after the first search was cut at the cap.
C9_Witness ==
    /\ pc = "exit"
    /\ exit_code = 0
    /\ slack_ack = "ok"
    /\ log["created"].warnings = 1
    /\ log["created"].len = 1000
    /\ log["updated"].pages = 2

====
